---- MODULE Spec2Model ----
(***************************************************************************)
(* Model of src/Part2/hammingcode.py: the HammingCode class (construction, *)
(* encode, decode, check), the module-level helpers it uses, and a caller  *)
(* that holds a data word and a (possibly corrupted) encoded word, as      *)
(* main() does.                                                            *)
(*                                                                         *)
(* A Python str of symbols is a sequence of one-character strings.  A call *)
(* that may raise yields a record [raised, value]: raised is "none" or the *)
(* name of the Python exception, value is the returned object.             *)
(***************************************************************************)
EXTENDS Integers, Sequences, FiniteSets, TLC

\* ------------------------------------------------------------------ bounds
\* largest parity_bits argument passed to the constructor
MaxParityBits == 3
\* the constructor is also tried with arguments down to -MaxNegative
MaxNegative == 1
\* longest ill-formed word (any symbols, any length) passed to a call
MaxWordLen == 4

\* symbols a caller may put in a string: the two bits, a digit that is not
\* a bit, and a character that is not a digit
Symbols == {"0", "1", "2", "a"}
Bits == {"0", "1"}

BitStrings(n) == [1..n -> Bits]
Words(maxlen) == UNION {[1..l -> Symbols] : l \in 0..maxlen}
IsBits(w) == \A i \in 1..Len(w) : w[i] \in Bits

\* ------------------------------------------------------- Python primitives
Ok(v) == [raised |-> "none", value |-> v]
Raise(e) == [raised |-> e, value |-> <<>>]

\* int(c) for a one-character string: defined on digits, ValueError otherwise
IsDigit(c) == c \in {"0", "1", "2", "3"}
int(c) == CASE c = "0" -> 0 [] c = "1" -> 1 [] c = "2" -> 2 [] c = "3" -> 3

\* str(v) for a small non-negative int
str(v) == CASE v = 0 -> "0" [] v = 1 -> "1" [] v = 2 -> "2" [] v = 3 -> "3"

\* a ^ b on non-negative ints below 4 (two binary digits)
Xor(a, b) == (((a % 2) + (b % 2)) % 2)
             + 2 * ((((a \div 2) % 2) + ((b \div 2) % 2)) % 2)

\* a & mask == mask for a power of two mask
HasBit(a, mask) == (a \div mask) % 2 = 1

\* seq[::-1]
Reverse(s) == [i \in 1..Len(s) |-> s[Len(s) - i + 1]]

\* seq[i] with Python's index rule: -len <= i < len, negative counts from the end
InRange(s, i) == -Len(s) <= i /\ i < Len(s)
At(s, i) == IF i >= 0 THEN i + 1 ELSE Len(s) + i + 1

Min(a, b) == IF a < b THEN a ELSE b

\* ---------------------------------------------------------- get_unit_matrix
get_unit_matrix(size) ==
    [row_index \in 1..size |->
        [col_index \in 1..size |-> IF row_index = col_index THEN 1 ELSE 0]]

\* -------------------------------------------------------- extract_data_bits
RECURSIVE ExtractLoop(_, _, _, _)
ExtractLoop(encoded_word, bit_position, parity_bit_index, data_bits) ==
    IF bit_position > Len(encoded_word) THEN data_bits
    ELSE IF bit_position = 2 ^ parity_bit_index
         THEN ExtractLoop(encoded_word, bit_position + 1, parity_bit_index + 1, data_bits)
         ELSE ExtractLoop(encoded_word, bit_position + 1, parity_bit_index,
                          Append(data_bits, encoded_word[Len(encoded_word) - bit_position + 1]))

extract_data_bits_noreverse(encoded_word) == ExtractLoop(encoded_word, 1, 0, <<>>)

extract_data_bits(encoded_word) == Reverse(ExtractLoop(encoded_word, 1, 0, <<>>))

\* ---------------------------------------------------------- matrix_multiply
\* sum(x * y for x, y in zip(row, vector)): zip stops at the shorter of the two
RECURSIVE ZipSum(_, _, _, _)
ZipSum(row, vector, j, last) ==
    IF j > last THEN 0
    ELSE row[j] * vector[j] + ZipSum(row, vector, j + 1, last)

matrix_multiply_nomod(matrix, vector) ==
    [i \in 1..Len(matrix) |->
        ZipSum(matrix[i], vector, 1, Min(Len(matrix[i]), Len(vector)))]

matrix_multiply(matrix, vector) ==
    [i \in 1..Len(matrix) |->
        ZipSum(matrix[i], vector, 1, Min(Len(matrix[i]), Len(vector))) % 2]

\* ------------------------------------------------ HammingCode.get_check_matrix
get_check_matrix_from0(self) ==
    [parity_bit_index \in 1..self.parity_bits |->
        [bit_position \in 1..self.codeword_length |->
            IF HasBit(bit_position - 1, 2 ^ (parity_bit_index - 1)) THEN 1 ELSE 0]]

get_check_matrix(self) ==
    [parity_bit_index \in 1..self.parity_bits |->
        [bit_position \in 1..self.codeword_length |->
            IF HasBit(bit_position, 2 ^ (parity_bit_index - 1)) THEN 1 ELSE 0]]

\* -------------------------------------------- HammingCode.get_generator_matrix
\* row = identity_matrix[data_bit_index], then for each parity_bit_index the
\* entry parity_check_matrix[parity_bit_index][data_bit_index] is appended
get_generator_matrix(self) ==
    LET identity_matrix == get_unit_matrix(self.data_length)
        parity_check_matrix == get_check_matrix(self)
    IN [data_bit_index \in 1..self.data_length |->
           identity_matrix[data_bit_index] \o
           [parity_bit_index \in 1..self.parity_bits |->
               parity_check_matrix[parity_bit_index][data_bit_index]]]

\* ------------------------------------------------------ HammingCode.__init__
Unset == [parity_bits |-> 0, codeword_length |-> 0, data_length |-> 0,
          generator_matrix |-> <<>>, check_matrix |-> <<>>]

HammingCode_init_min1(arg) ==
    IF arg < 1 THEN [raised |-> "ValueError", attrs |-> {}, self |-> Unset]
    ELSE LET s == [parity_bits |-> arg,
                   codeword_length |-> (2 ^ arg) - 1,
                   data_length |-> ((2 ^ arg) - 1) - arg]
         IN [raised |-> "none",
             attrs |-> {"parity_bits", "codeword_length", "data_length",
                        "generator_matrix", "check_matrix"},
             self |-> [parity_bits |-> s.parity_bits,
                       codeword_length |-> s.codeword_length,
                       data_length |-> s.data_length,
                       generator_matrix |-> get_generator_matrix(s),
                       check_matrix |-> get_check_matrix(s)]]

HammingCode_init_pow(arg) ==
    IF arg < 2 THEN [raised |-> "ValueError", attrs |-> {}, self |-> Unset]
    ELSE LET s == [parity_bits |-> arg,
                   codeword_length |-> 2 ^ arg,
                   data_length |-> (2 ^ arg) - arg]
         IN [raised |-> "none",
             attrs |-> {"parity_bits", "codeword_length", "data_length",
                        "generator_matrix", "check_matrix"},
             self |-> [parity_bits |-> s.parity_bits,
                       codeword_length |-> s.codeword_length,
                       data_length |-> s.data_length,
                       generator_matrix |-> get_generator_matrix(s),
                       check_matrix |-> get_check_matrix(s)]]

HammingCode_init(arg) ==
    IF arg < 2 THEN [raised |-> "ValueError", attrs |-> {}, self |-> Unset]
    ELSE LET s == [parity_bits |-> arg,
                   codeword_length |-> (2 ^ arg) - 1,
                   data_length |-> ((2 ^ arg) - 1) - arg]
         IN [raised |-> "none",
             attrs |-> {"parity_bits", "codeword_length", "data_length",
                        "generator_matrix", "check_matrix"},
             self |-> [parity_bits |-> s.parity_bits,
                       codeword_length |-> s.codeword_length,
                       data_length |-> s.data_length,
                       generator_matrix |-> get_generator_matrix(s),
                       check_matrix |-> get_check_matrix(s)]]

\* ------------------------------------------- HammingCode.pos_redundant_bits
RECURSIVE PosLoop(_, _, _, _, _, _)
PosLoop(data, last, bit_position, parity_bit_index, data_bit_index, result) ==
    IF bit_position > last THEN Ok(Reverse(result))
    ELSE IF bit_position = 2 ^ parity_bit_index
         THEN PosLoop(data, last, bit_position + 1, parity_bit_index + 1,
                      data_bit_index, Append(result, "0"))
         ELSE IF ~InRange(data, -1 * data_bit_index) THEN Raise("IndexError")
         ELSE PosLoop(data, last, bit_position + 1, parity_bit_index,
                      data_bit_index + 1,
                      Append(result, data[At(data, -1 * data_bit_index)]))

pos_redundant_bits_noreverse(self, data) ==
    LET positioned == PosLoop(data, Len(data) + self.parity_bits, 1, 0, 1, <<>>)
    IN IF positioned.raised # "none" THEN positioned
       ELSE Ok(Reverse(positioned.value))

pos_redundant_bits(self, data) ==
    PosLoop(data, Len(data) + self.parity_bits, 1, 0, 1, <<>>)

\* --------------------------------------------- HammingCode.calc_parity_bits
\* the inner loop: -1 stands for the ValueError of int() on a non-digit
RECURSIVE ParityValue(_, _, _, _)
ParityValue(arr, mask, bit_position, parity_value) ==
    IF bit_position > Len(arr) THEN parity_value
    ELSE IF HasBit(bit_position, mask)
         THEN IF ~IsDigit(arr[Len(arr) - bit_position + 1]) THEN -1
              ELSE ParityValue(arr, mask, bit_position + 1,
                               Xor(parity_value, int(arr[Len(arr) - bit_position + 1])))
         ELSE ParityValue(arr, mask, bit_position + 1, parity_value)

RECURSIVE CalcLoop(_, _, _)
CalcLoop(arr, count, parity_bit_index) ==
    IF parity_bit_index >= count THEN Ok(arr)
    ELSE LET parity_value == ParityValue(arr, 2 ^ parity_bit_index, 1, 0)
         IN IF parity_value = -1 THEN Raise("ValueError")
            ELSE IF ~InRange(arr, -(2 ^ parity_bit_index)) THEN Raise("IndexError")
            ELSE CalcLoop([arr EXCEPT ![At(arr, -(2 ^ parity_bit_index))] = str(parity_value)],
                          count, parity_bit_index + 1)

calc_parity_bits_skiplast(self, arr) == CalcLoop(arr, self.parity_bits - 1, 0)

calc_parity_bits(self, arr) == CalcLoop(arr, self.parity_bits, 0)

\* ------------------------------------------------- HammingCode.detect_error
\* int(s, 2) of the string of syndrome digits, most significant first
RECURSIVE ParseBinary(_, _, _)
ParseBinary(digits, i, acc) ==
    IF i > Len(digits) THEN acc ELSE ParseBinary(digits, i + 1, 2 * acc + digits[i])

detect_error_noreverse(self, arr) ==
    IF \E i \in 1..Len(arr) : ~IsDigit(arr[i]) THEN Raise("ValueError")
    ELSE LET ints == [i \in 1..Len(arr) |-> int(arr[i])]
             syndrome == matrix_multiply(self.check_matrix, ints)
         IN Ok(ParseBinary(Reverse(syndrome), 1, 0))

detect_error(self, arr) ==
    IF \E i \in 1..Len(arr) : ~IsDigit(arr[i]) THEN Raise("ValueError")
    ELSE LET reversed == Reverse(arr)
             ints == [i \in 1..Len(arr) |-> int(reversed[i])]
             syndrome == matrix_multiply(self.check_matrix, ints)
         IN Ok(ParseBinary(Reverse(syndrome), 1, 0))

\* ------------------------------------------------------- HammingCode.encode
encode(self, data) ==
    LET positioned_bits == pos_redundant_bits(self, data)
    IN IF positioned_bits.raised # "none" THEN positioned_bits
       ELSE calc_parity_bits(self, positioned_bits.value)

\* ------------------------------------------------------- HammingCode.decode
\* value is the returned tuple (encoded_word, data word, correction, error)
DecodeResult(w, c, e) ==
    Ok([encoded_word |-> w, data |-> extract_data_bits(w), correction |-> c, error |-> e])

decode_fromend(self, encoded_word, error) ==
    LET detected == detect_error(self, encoded_word)
    IN IF detected.raised # "none" THEN detected
       ELSE IF detected.value # 0
            THEN LET correction == detected.value - 1
                 IN IF ~InRange(encoded_word, correction) THEN Raise("IndexError")
                    ELSE DecodeResult(
                           [encoded_word EXCEPT ![At(encoded_word, correction)] =
                               IF encoded_word[At(encoded_word, correction)] = "0"
                               THEN "1" ELSE "0"],
                           correction, TRUE)
            ELSE DecodeResult(encoded_word, detected.value, error)

decode_nocorrect(self, encoded_word, error) ==
    LET detected == detect_error(self, encoded_word)
    IN IF detected.raised # "none" THEN detected
       ELSE IF detected.value # 0
            THEN LET correction == Len(encoded_word) - detected.value
                 IN IF ~InRange(encoded_word, correction) THEN Raise("IndexError")
                    ELSE DecodeResult(encoded_word, correction, TRUE)
            ELSE DecodeResult(encoded_word, detected.value, error)

decode(self, encoded_word, error) ==
    LET detected == detect_error(self, encoded_word)
    IN IF detected.raised # "none" THEN detected
       ELSE IF detected.value # 0
            THEN LET correction == Len(encoded_word) - detected.value
                 IN IF ~InRange(encoded_word, correction) THEN Raise("IndexError")
                    ELSE DecodeResult(
                           [encoded_word EXCEPT ![At(encoded_word, correction)] =
                               IF encoded_word[At(encoded_word, correction)] = "0"
                               THEN "1" ELSE "0"],
                           correction, TRUE)
            ELSE DecodeResult(encoded_word, detected.value, error)

\* -------------------------------------------------------- HammingCode.check
check(self, codeword) ==
    IF \E i \in 1..Len(codeword) : ~IsDigit(codeword[i]) THEN Raise("ValueError")
    ELSE LET reversed == Reverse(codeword)
             result == matrix_multiply(self.check_matrix,
                           [i \in 1..Len(codeword) |-> int(reversed[i])])
         IN Ok(\A i \in 1..Len(result) : result[i] = 0)

\* ===================================================================== state
VARIABLES
    attrs,              \* names of the attributes set on the HammingCode object
    parity_bits,        \* self.parity_bits
    codeword_length,    \* self.codeword_length
    data_length,        \* self.data_length
    generator_matrix,   \* self.generator_matrix
    check_matrix,       \* self.check_matrix
    built,              \* the attributes as they were when __init__ returned
    data_word,          \* caller: the data word last passed to encode
    og_encoded_word,    \* caller: what that encode returned
    encoded_word,       \* caller: the word it passes to check and decode
    flips,              \* caller: 0-indexed positions it flipped in encoded_word
    last_op,            \* the most recent step: a call, or what the caller did
    arg_parity,         \* its argument, for __init__
    arg_error,          \* its `error` argument, for decode
    raised,             \* the exception it raised, or "none"
    ret_word,           \* the codeword it returned (encode, decode)
    ret_data,           \* the data word it returned (decode)
    ret_position,       \* the error position it returned (decode)
    ret_flag            \* the boolean it returned (check; decode's error flag)

object == <<attrs, parity_bits, codeword_length, data_length, generator_matrix,
            check_matrix, built>>
caller == <<data_word, og_encoded_word, encoded_word, flips>>
call == <<last_op, arg_parity, arg_error, raised, ret_word, ret_data,
          ret_position, ret_flag>>
vars == <<object, caller, call>>

Self == [parity_bits |-> parity_bits, codeword_length |-> codeword_length,
         data_length |-> data_length, generator_matrix |-> generator_matrix,
         check_matrix |-> check_matrix]

Constructed == attrs # {}

\* the caller holds no word: it takes its next one from encode or from elsewhere
Idle == last_op \in {"__init__", "discard"}

Init ==
    /\ attrs = {}
    /\ parity_bits = Unset.parity_bits
    /\ codeword_length = Unset.codeword_length
    /\ data_length = Unset.data_length
    /\ generator_matrix = Unset.generator_matrix
    /\ check_matrix = Unset.check_matrix
    /\ built = Unset
    /\ data_word = <<>>
    /\ og_encoded_word = <<>>
    /\ encoded_word = <<>>
    /\ flips = {}
    /\ last_op = "none"
    /\ arg_parity = 0
    /\ arg_error = FALSE
    /\ raised = "none"
    /\ ret_word = <<>>
    /\ ret_data = <<>>
    /\ ret_position = 0
    /\ ret_flag = FALSE

\* hamming = HammingCode(arg), for any integer argument
Construct ==
    /\ last_op = "none"
    /\ \E arg \in (-MaxNegative)..MaxParityBits :
          \E r \in {HammingCode_init(arg)} :
             /\ attrs' = r.attrs
             /\ parity_bits' = r.self.parity_bits
             /\ codeword_length' = r.self.codeword_length
             /\ data_length' = r.self.data_length
             /\ generator_matrix' = r.self.generator_matrix
             /\ check_matrix' = r.self.check_matrix
             /\ built' = r.self
             /\ raised' = r.raised
             /\ arg_parity' = arg
    /\ last_op' = "__init__"
    /\ UNCHANGED <<caller, arg_error, ret_word, ret_data, ret_position, ret_flag>>

\* og_encoded_word = encoded_word = hamming.encode(data), for any data word
\* of data_length bits and any string of up to MaxWordLen symbols
Encode ==
    /\ Constructed
    /\ Idle
    /\ \E data \in BitStrings(data_length) \cup Words(MaxWordLen) :
          \E r \in {encode(Self, data)} :
             /\ raised' = r.raised
             /\ ret_word' = r.value
             /\ og_encoded_word' = r.value
             /\ encoded_word' = r.value
             /\ data_word' = data
    /\ flips' = {}
    /\ last_op' = "encode"
    /\ arg_error' = FALSE
    /\ ret_data' = <<>>
    /\ ret_position' = 0
    /\ ret_flag' = FALSE
    /\ UNCHANGED <<object, arg_parity>>

\* ask_user_for_error: the caller flips the bit at one position of the word
\* encode returned (asked once, so at most one bit is flipped)
IntroduceError ==
    /\ Constructed
    /\ og_encoded_word # <<>>
    /\ Len(encoded_word) = codeword_length
    /\ IsBits(encoded_word)
    /\ flips = {}
    /\ \E error_position \in 0..(codeword_length - 1) :
          /\ encoded_word' = [encoded_word EXCEPT ![error_position + 1] =
                                 str(Xor(int(encoded_word[error_position + 1]), 1))]
          /\ flips' = flips \cup {error_position}
    /\ last_op' = "introduce_error"
    /\ raised' = "none"
    /\ ret_word' = <<>>
    /\ ret_data' = <<>>
    /\ ret_position' = 0
    /\ ret_flag' = FALSE
    /\ arg_error' = FALSE
    /\ UNCHANGED <<object, arg_parity, data_word, og_encoded_word>>

\* the caller takes a word from elsewhere instead of one it encoded: any
\* string of codeword_length bits, or any string of up to MaxWordLen symbols
Receive ==
    /\ Constructed
    /\ Idle
    /\ \E word \in BitStrings(codeword_length) \cup Words(MaxWordLen) :
          encoded_word' = word
    /\ data_word' = <<>>
    /\ og_encoded_word' = <<>>
    /\ flips' = {}
    /\ last_op' = "receive"
    /\ raised' = "none"
    /\ ret_word' = <<>>
    /\ ret_data' = <<>>
    /\ ret_position' = 0
    /\ ret_flag' = FALSE
    /\ arg_error' = FALSE
    /\ UNCHANGED <<object, arg_parity>>

\* the caller drops the words it holds; the HammingCode object lives on
Discard ==
    /\ Constructed
    /\ ~Idle
    /\ data_word' = <<>>
    /\ og_encoded_word' = <<>>
    /\ encoded_word' = <<>>
    /\ flips' = {}
    /\ last_op' = "discard"
    /\ raised' = "none"
    /\ ret_word' = <<>>
    /\ ret_data' = <<>>
    /\ ret_position' = 0
    /\ ret_flag' = FALSE
    /\ arg_error' = FALSE
    /\ UNCHANGED <<object, arg_parity>>

\* check = hamming.check(encoded_word)
Check ==
    /\ Constructed
    /\ \E r \in {check(Self, encoded_word)} :
          /\ raised' = r.raised
          /\ ret_flag' = IF r.raised = "none" THEN r.value ELSE FALSE
    /\ last_op' = "check"
    /\ arg_error' = FALSE
    /\ ret_word' = <<>>
    /\ ret_data' = <<>>
    /\ ret_position' = 0
    /\ UNCHANGED <<object, caller, arg_parity>>

\* decoded_word, rec_data_word, error_position, error =
\*     hamming.decode(encoded_word, error), for either value of `error`
Decode ==
    /\ Constructed
    /\ \E error \in BOOLEAN :
          \E r \in {decode(Self, encoded_word, error)} :
             /\ raised' = r.raised
             /\ ret_word' = IF r.raised = "none" THEN r.value.encoded_word ELSE <<>>
             /\ ret_data' = IF r.raised = "none" THEN r.value.data ELSE <<>>
             /\ ret_position' = IF r.raised = "none" THEN r.value.correction ELSE 0
             /\ ret_flag' = IF r.raised = "none" THEN r.value.error ELSE FALSE
             /\ arg_error' = error
    /\ last_op' = "decode"
    /\ UNCHANGED <<object, caller, arg_parity>>

Next ==
    \/ Construct
    \/ Encode
    \/ IntroduceError
    \/ Receive
    \/ Discard
    \/ Check
    \/ Decode

Spec == Init /\ [][Next]_vars

\* ================================================================= properties
AllAttrs == {"parity_bits", "codeword_length", "data_length",
             "generator_matrix", "check_matrix"}

\* the caller's data word is a string of data_length bits
ValidData == Len(data_word) = data_length /\ IsBits(data_word)

\* the string as the list of its ints
Ints(w) == [i \in 1..Len(w) |-> int(w[i])]

\* row vector times matrix, modulo 2
RECURSIVE ColumnSum(_, _, _, _)
ColumnSum(vector, matrix, column, r) ==
    IF r > Len(vector) THEN 0
    ELSE vector[r] * matrix[r][column] + ColumnSum(vector, matrix, column, r + 1)

VectorTimesMatrix(vector, matrix) ==
    [column \in 1..Len(matrix[1]) |-> ColumnSum(vector, matrix, column, 1) % 2]

\* C1: single-error correction.  When decode is called on encode(d) with
\* exactly one bit flipped, at 0-indexed position p, for a data word d of
\* data_length bits, it returns the error flag true, the error position p,
\* the corrected codeword encode(d) and the data word d.
C1_SingleErrorCorrection ==
    (last_op = "decode" /\ ValidData /\ Cardinality(flips) = 1) =>
        /\ raised = "none"
        /\ Len(og_encoded_word) = codeword_length
        /\ encoded_word # og_encoded_word
        /\ ret_flag = TRUE
        /\ \A p \in flips : ret_position = p
        /\ ret_word = og_encoded_word
        /\ ret_data = data_word

\* the scenario of the specification: m = 3, data word 1011, bit 4 flipped
C1_Witness ==
    /\ last_op = "decode"
    /\ parity_bits = 3
    /\ data_word = <<"1", "0", "1", "1">>
    /\ og_encoded_word = <<"1", "0", "1", "0", "1", "0", "1">>
    /\ flips = {4}
    /\ encoded_word = <<"1", "0", "1", "0", "0", "0", "1">>
    /\ ret_position = 4
    /\ ret_flag = TRUE
    /\ ret_word = og_encoded_word
    /\ ret_data = data_word

\* C2: validity.  check called on encode(d), for a data word d of
\* data_length bits, returns true, and the check matrix times the encoded
\* word (read from its end) is the all-zero vector modulo 2.
C2_Validity ==
    (last_op = "check" /\ ValidData /\ flips = {}) =>
        /\ raised = "none"
        /\ Len(encoded_word) = codeword_length
        /\ encoded_word = og_encoded_word
        /\ ret_flag = TRUE
        /\ matrix_multiply(check_matrix, Ints(Reverse(encoded_word)))
              = [i \in 1..parity_bits |-> 0]

C2_Witness ==
    /\ last_op = "check"
    /\ parity_bits = 3
    /\ data_word = <<"1", "0", "1", "1">>
    /\ flips = {}
    /\ encoded_word = <<"1", "0", "1", "0", "1", "0", "1">>
    /\ ret_flag = TRUE

\* C3: round trip.  For a data word d of data_length bits encode returns a
\* word whose extract_data_bits is d, same bits in the same order.
C3_RoundTrip ==
    (last_op = "encode" /\ ValidData) =>
        /\ raised = "none"
        /\ Len(ret_word) = codeword_length
        /\ extract_data_bits(ret_word) = data_word

C3_Witness ==
    /\ last_op = "encode"
    /\ parity_bits = 3
    /\ data_word = <<"1", "1", "0", "0">>
    /\ raised = "none"
    /\ Len(ret_word) = 7

\* C4: no-error idempotence.  decode(encode(d)), called without the
\* optional argument, returns the error flag false, the codeword encode(d)
\* unchanged and the data word d.
C4_NoErrorIdempotence ==
    (last_op = "decode" /\ ~arg_error /\ ValidData /\ flips = {}) =>
        /\ raised = "none"
        /\ Len(ret_word) = codeword_length
        /\ ret_flag = FALSE
        /\ ret_word = og_encoded_word
        /\ ret_word = encoded_word
        /\ ret_data = data_word

C4_Witness ==
    /\ last_op = "decode"
    /\ ~arg_error
    /\ parity_bits = 3
    /\ data_word = <<"1", "0", "1", "1">>
    /\ flips = {}
    /\ ret_word = <<"1", "0", "1", "0", "1", "0", "1">>
    /\ ret_flag = FALSE

\* C5: generator consistency.  For a data word d of data_length bits the
\* row-vector product d * generator_matrix modulo 2 equals encode(d) bit
\* for bit.
C5_GeneratorConsistency ==
    (last_op = "encode" /\ ValidData /\ raised = "none") =>
        VectorTimesMatrix(Ints(data_word), generator_matrix) = Ints(ret_word)

\* C6: encode called with a data word whose length is not data_length
\* raises and returns no codeword.
C6_EncodeLengthMismatch ==
    (last_op = "encode" /\ Len(data_word) # data_length) =>
        /\ raised # "none"
        /\ ret_word = <<>>

\* C7: construction succeeds exactly when parity_bits >= 2.  The argument 2
\* gives codeword_length 3 and data_length 1; an argument below 2 raises
\* with no attribute of the object set.
C7_ConstructionBoundary ==
    (last_op # "none") =>
        /\ (arg_parity >= 2) <=> Constructed
        /\ Constructed => attrs = AllAttrs /\ parity_bits = arg_parity
        /\ (last_op = "__init__" /\ Constructed) => raised = "none"
        /\ arg_parity = 2 => codeword_length = 3 /\ data_length = 1
        /\ arg_parity < 2 =>
              /\ last_op = "__init__"
              /\ raised = "ValueError"
              /\ attrs = {}
              /\ Self = Unset

C7_Witness ==
    /\ last_op = "__init__"
    /\ arg_parity = 1
    /\ raised = "ValueError"
    /\ attrs = {}

\* C8: immutable state.  After a successful construction with m >= 2 and
\* after any calls of encode, decode and check, raising or not, the object
\* has parity_bits = m, codeword_length = 2^m - 1, data_length =
\* 2^m - 1 - m > 0, and the two matrices it had when construction returned.
C8_ImmutableState ==
    Constructed =>
        /\ attrs = AllAttrs
        /\ parity_bits = arg_parity
        /\ parity_bits >= 2
        /\ codeword_length = (2 ^ parity_bits) - 1
        /\ data_length = (2 ^ parity_bits) - 1 - parity_bits
        /\ data_length > 0
        /\ Self = built
        /\ Len(check_matrix) = parity_bits
        /\ \A i \in 1..Len(check_matrix) : Len(check_matrix[i]) = codeword_length
        /\ Len(generator_matrix) = data_length
        /\ \A i \in 1..Len(generator_matrix) :
              Len(generator_matrix[i]) = codeword_length

\* a decode that raised, on an object built with m = 3
C8_Witness ==
    /\ Constructed
    /\ parity_bits = 3
    /\ last_op = "decode"
    /\ raised = "ValueError"
    /\ Self = built

\* C9: decode and check called with a string whose length is not
\* codeword_length raise instead of returning a result.
C9_CodewordLengthMismatch ==
    (last_op \in {"decode", "check"} /\ Len(encoded_word) # codeword_length) =>
        raised # "none"

\* C10: encode, decode and check called with a string of the right length
\* that holds a symbol other than '0' and '1' raise instead of returning a
\* result.
C10_InvalidCharacter ==
    /\ (last_op = "encode" /\ Len(data_word) = data_length /\ ~IsBits(data_word))
          => raised # "none"
    /\ (last_op \in {"decode", "check"} /\ Len(encoded_word) = codeword_length
           /\ ~IsBits(encoded_word))
          => raised # "none"

\* the caller's word is a string of codeword_length bits
ValidWord == Len(encoded_word) = codeword_length /\ IsBits(encoded_word)

\* C11: the error position decode returns when it detects no error is 0;
\* as a sentinel it differs from every position decode returns when it
\* detects and corrects an error in a string of codeword_length bits.
C11_NoErrorSentinel ==
    /\ (last_op = "decode" /\ ValidWord /\ raised = "none" /\ ret_word = encoded_word)
          => ret_position = 0
    /\ (last_op = "decode" /\ ValidWord /\ raised = "none" /\ ret_word # encoded_word)
          => ret_position # 0

\* position j is one of 1, 2, 4, 8, ...
IsPowerOfTwo(j) == \E p \in 0..j : j = 2 ^ p

\* how many of the positions 1..j are not powers of two
DataRank(j) == Cardinality({i \in 1..j : ~IsPowerOfTwo(i)})

\* the symbol at position j of w, positions counted 1.. from the right end
BitAt(w, j) == w[Len(w) - j + 1]

\* C12: codeword layout.  For a data word d of data_length bits encode(d)
\* has codeword_length bits; counting positions from the right end, the
\* positions that are not powers of two hold the bits of d in their order,
\* and position 2^p holds the XOR of the data bits whose position has bit
\* p set.
C12_CodewordLayout ==
    (last_op = "encode" /\ ValidData) =>
        /\ raised = "none"
        /\ Len(ret_word) = codeword_length
        /\ DataRank(codeword_length) = data_length
        /\ \A j \in 1..codeword_length :
              ~IsPowerOfTwo(j) => BitAt(ret_word, j) = BitAt(data_word, DataRank(j))
        /\ \A p \in 0..(parity_bits - 1) :
              BitAt(ret_word, 2 ^ p) =
                 IF Cardinality({j \in 1..codeword_length :
                                   /\ ~IsPowerOfTwo(j)
                                   /\ (j \div (2 ^ p)) % 2 = 1
                                   /\ BitAt(ret_word, j) = "1"}) % 2 = 1
                 THEN "1" ELSE "0"

C12_Witness ==
    /\ last_op = "encode"
    /\ parity_bits = 3
    /\ data_word = <<"1", "0", "1", "1">>
    /\ ret_word = <<"1", "0", "1", "0", "1", "0", "1">>

\* column j of the matrix read as a binary number, row 1 the least
\* significant digit
RECURSIVE ColumnNumber(_, _, _)
ColumnNumber(matrix, j, i) ==
    IF i > Len(matrix) THEN 0
    ELSE matrix[i][j] * (2 ^ (i - 1)) + ColumnNumber(matrix, j, i + 1)

\* C13: check-matrix structure.  The constructed check_matrix is
\* m x (2^m - 1) with entries 0 and 1; the entry in row i (from 0) of
\* column j (from 1) is 1 iff bit i of j is set, so column j is the binary
\* representation of j (for m = 3: 001, 010, 011, 100, 101, 110, 111).
C13_CheckMatrixStructure ==
    Constructed =>
        /\ Len(check_matrix) = parity_bits
        /\ \A i \in 1..parity_bits :
              /\ Len(check_matrix[i]) = (2 ^ parity_bits) - 1
              /\ \A j \in 1..((2 ^ parity_bits) - 1) :
                    /\ check_matrix[i][j] \in {0, 1}
                    /\ check_matrix[i][j] = 1 <=> (j \div (2 ^ (i - 1))) % 2 = 1
        /\ \A j \in 1..((2 ^ parity_bits) - 1) : ColumnNumber(check_matrix, j, 1) = j
        /\ parity_bits = 3 =>
              check_matrix = << <<1, 0, 1, 0, 1, 0, 1>>,
                                <<0, 1, 1, 0, 0, 1, 1>>,
                                <<0, 0, 0, 1, 1, 1, 1>> >>

C13_Witness ==
    /\ Constructed
    /\ parity_bits = 3
    /\ last_op = "__init__"
    /\ check_matrix[1] = <<1, 0, 1, 0, 1, 0, 1>>
    /\ check_matrix[3] = <<0, 0, 0, 1, 1, 1, 1>>

\* the r-th position, in increasing order, that is not a power of two
\* (3, 5, 6, 7, 9, ...)
DataPosition(r) ==
    CHOOSE j \in 1..codeword_length : ~IsPowerOfTwo(j) /\ DataRank(j) = r

\* C14: generator-matrix structure.  The constructed generator_matrix is
\* k x n; row r is the r-th unit vector of length k followed by the m
\* check-matrix entries of the column of the r-th data position.
C14_GeneratorMatrixStructure ==
    Constructed =>
        /\ Len(generator_matrix) = data_length
        /\ \A r \in 1..data_length :
              /\ Len(generator_matrix[r]) = codeword_length
              /\ generator_matrix[r] =
                    [c \in 1..data_length |-> IF c = r THEN 1 ELSE 0] \o
                    [p \in 1..parity_bits |-> check_matrix[p][DataPosition(r)]]

\* the check matrix times the word, read from its end, is zero modulo 2
ZeroSyndrome(w) ==
    matrix_multiply(check_matrix, Ints(Reverse(w))) = [i \in 1..parity_bits |-> 0]

\* C15: decode's error flag is true exactly when the syndrome of its input
\* is non-zero: for a string of codeword_length bits with zero syndrome
\* decode returns the string unchanged with the flag false, whatever value
\* the caller passes for the optional `error` parameter.
C15_ErrorFlagIsSyndrome ==
    (last_op = "decode" /\ ValidWord) =>
        /\ raised = "none"
        /\ ret_flag <=> ~ZeroSyndrome(encoded_word)
        /\ ZeroSyndrome(encoded_word) => ret_word = encoded_word /\ ret_flag = FALSE

\* the indices (from 1, from the left) at which two words of one length differ
Differences(v, w) == {i \in 1..Len(v) : v[i] # w[i]}

\* C16: decode lands on a valid codeword.  For every string w of
\* codeword_length bits, decode(w) raises nothing, returns a corrected
\* codeword of codeword_length bits that passes check and differs from w in
\* exactly one bit (the reported one) when the error flag is true and in no
\* bit when it is false, and returns the data bits of that codeword.
C16_DecodeLandsOnCodeword ==
    (last_op = "decode" /\ ValidWord /\ ~arg_error) =>
        /\ raised = "none"
        /\ Len(ret_word) = codeword_length
        /\ IsBits(ret_word)
        /\ check(Self, ret_word) = Ok(TRUE)
        /\ ret_flag => /\ 0 <= ret_position /\ ret_position < codeword_length
                       /\ Differences(ret_word, encoded_word) = {ret_position + 1}
        /\ ~ret_flag => Differences(ret_word, encoded_word) = {}
        /\ Len(ret_data) = data_length
        /\ \A j \in 1..codeword_length :
              ~IsPowerOfTwo(j) => BitAt(ret_data, DataRank(j)) = BitAt(ret_word, j)

\* a word that no encode returned and that is not a codeword
C16_Witness ==
    /\ last_op = "decode"
    /\ ~arg_error
    /\ parity_bits = 3
    /\ og_encoded_word = <<>>
    /\ encoded_word = <<"1", "1", "1", "1", "1", "1", "0">>
    /\ ret_flag = TRUE
    /\ ret_position = 6
    /\ ret_word = <<"1", "1", "1", "1", "1", "1", "1">>
    /\ ret_data = <<"1", "1", "1", "1">>

\* ------------------------------------------------- two errors in one word
\* the caller flips a second bit, at another position, of a word in which
\* it flipped one (the flip of ask_user_for_error, once more)
IntroduceSecondError ==
    /\ Constructed
    /\ last_op = "introduce_error"
    /\ Cardinality(flips) = 1
    /\ \E error_position \in 0..(codeword_length - 1) :
          /\ error_position \notin flips
          /\ encoded_word' = [encoded_word EXCEPT ![error_position + 1] =
                                 str(Xor(int(encoded_word[error_position + 1]), 1))]
          /\ flips' = flips \cup {error_position}
    /\ UNCHANGED <<object, call, data_word, og_encoded_word>>

\* hamming.decode(encoded_word, error) on the word with two flipped bits
DecodeDoubleError ==
    /\ last_op = "introduce_error"
    /\ Cardinality(flips) = 2
    /\ Decode

\* one run of the caller: construct, encode, flip two bits, decode
NextDouble ==
    \/ Construct
    \/ Encode
    \/ IntroduceError
    \/ IntroduceSecondError
    \/ DecodeDoubleError

SpecDouble == Init /\ [][NextDouble]_vars

\* C17: a double-bit error is miscorrected.  decode called on encode(d)
\* with the bits at two distinct positions flipped returns the error flag
\* true, flips a third position, returns a codeword that differs from
\* encode(d) in exactly three bits, and returns a data word other than d.
C17_DoubleErrorMiscorrected ==
    (last_op = "decode" /\ ValidData /\ Cardinality(flips) = 2) =>
        /\ raised = "none"
        /\ Differences(encoded_word, og_encoded_word) = {p + 1 : p \in flips}
        /\ ret_flag = TRUE
        /\ 0 <= ret_position /\ ret_position < codeword_length
        /\ ret_position \notin flips
        /\ Differences(ret_word, og_encoded_word)
              = {p + 1 : p \in flips \cup {ret_position}}
        /\ Cardinality(Differences(ret_word, og_encoded_word)) = 3
        /\ ret_data # data_word

C17_Witness ==
    /\ last_op = "decode"
    /\ parity_bits = 3
    /\ data_word = <<"1", "0", "1", "1">>
    /\ og_encoded_word = <<"1", "0", "1", "0", "1", "0", "1">>
    /\ flips = {0, 1}
    /\ encoded_word = <<"0", "1", "1", "0", "1", "0", "1">>
    /\ ret_flag = TRUE
    /\ ret_position \notin flips
    /\ ret_data # data_word

====
